---- MODULE Spec2Model ----
(***************************************************************************)
(* Model of backend/server.js: the four chained HTTP handlers              *)
(*   POST /api/web-search            (WebSearch, BraveReply)               *)
(*   POST /api/analyze-prospect      (AnalyzeProspect, ClaudeReply)        *)
(*   POST /api/monitor-prospect      (MonitorProspect, ...)                *)
(*   POST /api/monitor-all-prospects (MonitorAllProspects, ...)            *)
(* Each handler is a small state machine whose steps are the stretches of  *)
(* code between two awaits.  The two upstream providers and the loopback   *)
(* transport are the environment: their replies are chosen with \E.        *)
(***************************************************************************)
EXTENDS Naturals, Sequences, FiniteSets, TLC

----------------------------------------------------------------------------
(* Bounds of the model *)

\* longest result list the search provider replies with to a direct search
MaxHits == 11
\* longest prospect list given to the batch monitor
MaxProspects == 3
\* longest keyword list given to the single-prospect monitor
MaxKeywords == 5
\* longest search-result list given directly to the analysis endpoint
MaxAnalyzed == 9

----------------------------------------------------------------------------
(* JavaScript values *)

\* the value of a field that is absent from a request body or a reply
Undefined == "<undefined>"
Null == "<null>"

\* !x is false: for the strings of this model
Truthy(s) == s # Undefined /\ s # Null /\ s # ""

\* a || b
Or(a, b) == IF Truthy(a) THEN a ELSE b

\* A request field that should hold an array: what the JSON body held there.
\* kind "array": items are its elements; "string": chars are its characters
\* (a string has slice and length, but no join); "object": any other value
\* that is no array (it has neither slice nor join); "undefined": the field
\* is absent.
JsArray(items) == [kind |-> "array", items |-> items, chars |-> <<>>]
JsText(chars) == [kind |-> "string", items |-> <<>>, chars |-> chars]
JsObject == [kind |-> "object", items |-> <<>>, chars |-> <<>>]
JsUndefined == [kind |-> "undefined", items |-> <<>>, chars |-> <<>>]

\* !v is false for such a field ([] and {} are truthy, "" is not)
TruthyV(v) == v.kind # "undefined" /\ ~(v.kind = "string" /\ Len(v.chars) = 0)

\* JSON scalars whose type the code tests with typeof
JsBool(b) == [type |-> "boolean", b |-> b]
JsString(s) == [type |-> "string", s |-> s]
TruthyT(v) == IF v.type = "boolean" THEN v.b ELSE v.s # ""

\* r.f, undefined when the object has no such field (string-valued fields)
Get(r, f) == IF f \in DOMAIN r THEN r[f] ELSE Undefined

\* r.success is truthy
Success(r) == "success" \in DOMAIN r /\ r.success = TRUE

\* s.slice(0, n)
Slice(s, n) == SubSeq(s, 1, IF Len(s) < n THEN Len(s) ELSE n)

RECURSIVE Join(_, _)
\* s.join(sep)
Join(s, sep) ==
  IF Len(s) = 0 THEN ""
  ELSE IF Len(s) = 1 THEN s[1]
  ELSE s[1] \o sep \o Join(Tail(s), sep)

\* all sequences over S of length at most n
SeqsUpTo(S, n) == UNION {[1..k -> S] : k \in 0..n}

Response(status, body) == [status |-> status, body |-> body]
NoResponse == Response(0, [pending |-> TRUE])

----------------------------------------------------------------------------
(* The search provider (Brave) *)

\* a hit of the provider's reply with every field the code reads / with none
FullHit == [title |-> "Acme raises Series B", url |-> "https://news.example/acme",
            description |-> "Acme closed a funding round", age |-> "2 days ago",
            img |-> "https://news.example/favicon.ico"]
BareHit == [title |-> Undefined, url |-> Undefined, description |-> Undefined,
            age |-> Undefined, img |-> Undefined]
RawHits == {FullHit, BareHit}

BraveNone == [kind |-> "none", status |-> Undefined, shape |-> Undefined, hits |-> <<>>]
BraveThrow == [kind |-> "throw", status |-> Undefined, shape |-> Undefined, hits |-> <<>>]
BraveStatus(st) == [kind |-> "status", status |-> st, shape |-> Undefined, hits |-> <<>>]
BraveOk(shape, hits) == [kind |-> "ok", status |-> "200 OK", shape |-> shape, hits |-> hits]

\* what the provider may answer: the call fails (or the body is no JSON), a
\* non-success status, a 2xx body without web, with web but without results,
\* or with a list of hits
BraveRepliesUpTo(n) ==
  {BraveThrow, BraveStatus("429 Too Many Requests"),
   BraveOk("noweb", <<>>), BraveOk("noresults", <<>>)}
  \cup {BraveOk("results", h) : h \in SeqsUpTo(RawHits, n)}

\* the message of the error a failed fetch (or json()) rejects with
FetchErrorMessage == "fetch failed"

----------------------------------------------------------------------------
(* The LLM provider (Anthropic) *)

\* The text of the first content block, as a sequence of pieces: a code-fence
\* marker ("```json\n" or "```\n"), a stretch of prose, or the text of one
\* JSON value.
FenceJson == [t |-> "fence_json"]
Fence == [t |-> "fence"]
Prose == [t |-> "prose"]
Json(v) == [t |-> "json", v |-> v]

\* JSON values the model may write
JsonNull == [isNull |-> TRUE]
ModelVerdict(hasNews) ==
  [company |-> "Acme", hasNews |-> hasNews, summary |-> "Acme raised a Series B",
   newsType |-> "funding", urgency |-> "high", slackMessage |-> "Acme raised a Series B",
   sourceUrl |-> "https://news.example/acme", confidence |-> "high"]
NoCompany == [hasNews |-> JsBool(TRUE), summary |-> "Acme raised a Series B", confidence |-> "high"]
EmptyCompany == [ModelVerdict(JsBool(TRUE)) EXCEPT !.company = ""]
NoHasNews == [company |-> "Acme", summary |-> "Acme raised a Series B", confidence |-> "high"]
StringHasNews == ModelVerdict(JsString("true"))

ClaudeTexts ==
  {<<Json(ModelVerdict(JsBool(TRUE)))>>,
   <<Json(ModelVerdict(JsBool(FALSE)))>>,
   <<FenceJson, Json(ModelVerdict(JsBool(TRUE))), Fence>>,
   <<Fence, Json(ModelVerdict(JsBool(FALSE))), Fence>>,
   <<>>,
   <<Prose>>,
   <<Prose, Json(ModelVerdict(JsBool(TRUE)))>>,
   <<FenceJson, Prose, Fence>>,
   <<Json(JsonNull)>>,
   <<Json(NoCompany)>>,
   <<Json(EmptyCompany)>>,
   <<Json(NoHasNews)>>,
   <<Json(StringHasNews)>>,
   <<FenceJson, Json(NoHasNews), Fence>>}

ClaudeNone == [kind |-> "none", status |-> Undefined, errorText |-> Undefined,
               content |-> FALSE, text |-> <<>>]
ClaudeThrow == [kind |-> "throw", status |-> Undefined, errorText |-> Undefined,
                content |-> FALSE, text |-> <<>>]
ClaudeStatus(st, txt) == [kind |-> "status", status |-> st, errorText |-> txt,
                          content |-> FALSE, text |-> <<>>]
ClaudeNoContent == [kind |-> "ok", status |-> "200", errorText |-> Undefined,
                    content |-> FALSE, text |-> <<>>]
ClaudeText(text) == [kind |-> "ok", status |-> "200", errorText |-> Undefined,
                     content |-> TRUE, text |-> text]

\* what the provider may answer: the call fails, a non-success status, a 2xx
\* body without content, or a 2xx body whose first content block holds a text
ClaudeReplies ==
  {ClaudeThrow, ClaudeStatus("529", "overloaded"), ClaudeNoContent}
  \cup {ClaudeText(t) : t \in ClaudeTexts}

----------------------------------------------------------------------------
(* State *)

VARIABLES
  top,                \* the endpoint the client called, "none" before it did
  BRAVE_API_KEY,      \* process.env.BRAVE_API_KEY, read at startup
  ANTHROPIC_API_KEY,  \* process.env.ANTHROPIC_API_KEY, read at startup
  search,             \* the running POST /api/web-search handler
  analyze,            \* the running POST /api/analyze-prospect handler
  monitor,            \* the running POST /api/monitor-prospect handler
  batch,              \* the running POST /api/monitor-all-prospects handler
  log,                \* what the batch run did, in order (observation only)
  conc                \* the batch handlers of two requests served concurrently

vars == <<top, BRAVE_API_KEY, ANTHROPIC_API_KEY, search, analyze, monitor, batch, log,
          conc>>

KeyValues == {Undefined, "configured-key"}

----------------------------------------------------------------------------
(* POST /api/web-search *)

SearchIdle == [pc |-> "idle", query |-> Undefined, sent |-> <<>>,
               reply |-> BraveNone, res |-> NoResponse]
SearchCall(query) == [SearchIdle EXCEPT !.pc = "start", !.query = query]

\* the URL of the outbound request
SearchUrl(query) ==
  [q |-> query, count |-> "10", freshness |-> "pw", text_decorations |-> "false",
   search_lang |-> "en", country |-> "US"]

\* WebSearchRejects with the credential checked before the query
WebSearchRejectsKeyFirst(query, key) ==
  IF ~Truthy(key) THEN Response(500, [error |-> "Brave API key not configured"])
  ELSE IF ~Truthy(query) THEN Response(400, [error |-> "Query parameter is required"])
  ELSE NoResponse

\* the early returns: the response, or NoResponse when the request goes on
WebSearchRejects(query, key) ==
  IF ~Truthy(query) THEN Response(400, [error |-> "Query parameter is required"])
  ELSE IF ~Truthy(key) THEN Response(500, [error |-> "Brave API key not configured"])
  ELSE NoResponse

\* result => ({title: result.title || 'No title', ...})
FormatResult(result) ==
  [title |-> Or(result.title, "No title"),
   url |-> Or(result.url, ""),
   description |-> Or(result.description, "No description"),
   published |-> Or(result.age, "Recent"),
   favicon |-> Or(result.img, Null)]

\* searchData.web?.results?.map(...) || []
FormatResults(reply) ==
  IF reply.shape = "results"
    THEN [i \in 1..Len(reply.hits) |-> FormatResult(reply.hits[i])]
    ELSE <<>>

\* the response once the provider has answered
WebSearchResult(query, reply) ==
  IF reply.kind = "throw"
    THEN Response(500, [error |-> "Search failed", message |-> FetchErrorMessage])
  ELSE IF reply.kind = "status"
    THEN Response(500, [error |-> "Search failed",
                        message |-> "Brave API error: " \o reply.status])
  ELSE LET results == FormatResults(reply)
       IN Response(200, [success |-> TRUE, query |-> query, results |-> results,
                         total |-> Len(results)])

\* the replies of the search provider in this run: result lists of up to
\* MaxHits hits for a direct search, of at most one hit when the search is a
\* step of a monitor or batch run
BraveReplies == BraveRepliesUpTo(IF top = "search" THEN MaxHits ELSE 1)

\* lines 24-51: validate, then send the request to the provider
WebSearch ==
  /\ search.pc = "start"
  /\ LET rej == WebSearchRejects(search.query, BRAVE_API_KEY)
     IN search' = IF rej # NoResponse
                    THEN [search EXCEPT !.pc = "done", !.res = rej]
                    ELSE [search EXCEPT !.pc = "fetch",
                                        !.sent = Append(@, SearchUrl(search.query))]
  /\ UNCHANGED <<top, BRAVE_API_KEY, ANTHROPIC_API_KEY, conc, analyze, monitor, batch, log>>

\* lines 53-81: the provider answers
BraveReply ==
  /\ search.pc = "fetch"
  /\ \E reply \in BraveReplies :
       search' = [search EXCEPT !.pc = "done",
                                !.reply = reply,
                                !.res = WebSearchResult(search.query, reply)]
  /\ UNCHANGED <<top, BRAVE_API_KEY, ANTHROPIC_API_KEY, conc, analyze, monitor, batch, log>>

----------------------------------------------------------------------------
(* POST /api/analyze-prospect *)

AnalyzeIdle == [pc |-> "idle", prospect |-> Undefined, keywords |-> JsUndefined,
                searchResults |-> JsUndefined, sent |-> <<>>, reply |-> ClaudeNone,
                res |-> NoResponse]
AnalyzeCall(prospect, keywords, searchResults) ==
  [AnalyzeIdle EXCEPT !.pc = "start", !.prospect = prospect, !.keywords = keywords,
                      !.searchResults = searchResults]

\* AnalyzeRejects without the check of prospect
AnalyzeRejectsNoProspect(prospect, keywords, searchResults, key) ==
  IF ~TruthyV(keywords) \/ ~TruthyV(searchResults)
    THEN Response(400, [error |-> "Missing required parameters"])
  ELSE IF ~Truthy(key)
    THEN Response(500, [error |-> "Anthropic API key not configured"])
  ELSE IF searchResults.kind = "object"
    THEN Response(500, [error |-> "Analysis failed",
                        message |-> "searchResults.slice is not a function"])
  ELSE IF keywords.kind # "array"
    THEN Response(500, [error |-> "Analysis failed",
                        message |-> "keywords.join is not a function"])
  ELSE NoResponse

\* the early returns and the errors thrown while the prompt is built: the
\* response, or NoResponse when the request goes on
AnalyzeRejects(prospect, keywords, searchResults, key) ==
  IF ~Truthy(prospect) \/ ~TruthyV(keywords) \/ ~TruthyV(searchResults)
    THEN Response(400, [error |-> "Missing required parameters"])
  ELSE IF ~Truthy(key)
    THEN Response(500, [error |-> "Anthropic API key not configured"])
  ELSE IF searchResults.kind = "object"
    THEN Response(500, [error |-> "Analysis failed",
                        message |-> "searchResults.slice is not a function"])
  ELSE IF keywords.kind # "array"
    THEN Response(500, [error |-> "Analysis failed",
                        message |-> "keywords.join is not a function"])
  ELSE NoResponse

\* Prompt without the slice: every search result is embedded
PromptAllResults(prospect, keywords, searchResults) ==
  [model |-> "claude-3-sonnet-20240229", max_tokens |-> 1500, prospect |-> prospect,
   searchResults |-> IF searchResults.kind = "string"
                       THEN searchResults.chars
                       ELSE searchResults.items,
   keywords |-> Join(keywords.items, ", ")]

\* the body of the outbound request: what the prompt embeds (the first eight
\* characters of searchResults when it is a string)
Prompt(prospect, keywords, searchResults) ==
  [model |-> "claude-3-sonnet-20240229", max_tokens |-> 1500, prospect |-> prospect,
   searchResults |-> IF searchResults.kind = "string"
                       THEN Slice(searchResults.chars, 8)
                       ELSE Slice(searchResults.items, 8),
   keywords |-> Join(keywords.items, ", ")]

\* responseText.replace(/```json\n?/g, "").replace(/```\n?/g, "").trim()
CleanUp(text) == SelectSeq(text, LAMBDA tok : tok.t \notin {"fence_json", "fence"})

\* JSON.parse: ok is FALSE when it throws
JsonParse(text) ==
  IF Len(text) = 1 /\ text[1].t = "json"
    THEN [ok |-> TRUE, value |-> text[1].v]
    ELSE [ok |-> FALSE, value |-> JsonNull]

\* line 159 passes: analysis.company is truthy and analysis.hasNews a boolean
\* (reading a field of null throws, inside the same try)
ValidStructure(analysis) ==
  /\ analysis # JsonNull
  /\ "company" \in DOMAIN analysis
  /\ Truthy(analysis.company)
  /\ "hasNews" \in DOMAIN analysis
  /\ analysis.hasNews.type = "boolean"

\* the information sign of line 180 (U+2139 U+FE0F), as JSON escapes
InfoSign == "\\u2139\\ufe0f"

\* lines 174-183; searchResults[0]?.url is undefined for an empty array and
\* for a string, whose first element is a character
Fallback(prospect, searchResults) ==
  [company |-> prospect,
   hasNews |-> JsBool(FALSE),
   summary |-> "Unable to analyze search results properly",
   newsType |-> "other",
   urgency |-> "low",
   slackMessage |-> InfoSign \o " Unable to analyze news for " \o prospect
                     \o " - manual review needed",
   sourceUrl |-> IF searchResults.kind = "array" /\ Len(searchResults.items) > 0
                   THEN Or(searchResults.items[1].url, Null)
                   ELSE Null,
   confidence |-> "low"]

\* ParseAnalysis with the structure check outside the inner try: an invalid
\* structure reaches the outer catch
ParseAnalysisRethrow(prospect, searchResults, text) ==
  LET parsed == JsonParse(CleanUp(text))
  IN IF ~parsed.ok
       THEN Response(200, [success |-> TRUE,
                           analysis |-> Fallback(prospect, searchResults)])
     ELSE IF ~ValidStructure(parsed.value)
       THEN Response(500, [error |-> "Analysis failed",
                           message |-> "Invalid analysis response structure"])
     ELSE Response(200, [success |-> TRUE, analysis |-> parsed.value])

\* lines 155-185: the inner try and its catch
ParseAnalysis(prospect, searchResults, text) ==
  LET parsed == JsonParse(CleanUp(text))
  IN IF parsed.ok /\ ValidStructure(parsed.value)
       THEN Response(200, [success |-> TRUE, analysis |-> parsed.value])
       ELSE Response(200, [success |-> TRUE,
                           analysis |-> Fallback(prospect, searchResults)])

\* the response once the provider has answered
AnalysisResult(prospect, searchResults, reply) ==
  IF reply.kind = "throw"
    THEN Response(500, [error |-> "Analysis failed", message |-> FetchErrorMessage])
  ELSE IF reply.kind = "status"
    THEN Response(500, [error |-> "Analysis failed",
                        message |-> "Claude API error: " \o reply.status
                                      \o " - " \o reply.errorText])
  ELSE IF ~reply.content
    THEN Response(500, [error |-> "Analysis failed",
                        message |-> "Cannot read properties of undefined (reading '0')"])
  ELSE ParseAnalysis(prospect, searchResults, reply.text)

\* lines 87-142: validate, build the prompt, send it to the provider
AnalyzeProspect ==
  /\ analyze.pc = "start"
  /\ LET rej == AnalyzeRejects(analyze.prospect, analyze.keywords,
                               analyze.searchResults, ANTHROPIC_API_KEY)
     IN analyze' = IF rej # NoResponse
                     THEN [analyze EXCEPT !.pc = "done", !.res = rej]
                     ELSE [analyze EXCEPT
                             !.pc = "fetch",
                             !.sent = Append(@, Prompt(analyze.prospect, analyze.keywords,
                                                       analyze.searchResults))]
  /\ UNCHANGED <<top, BRAVE_API_KEY, ANTHROPIC_API_KEY, conc, search, monitor, batch, log>>

\* lines 144-193: the provider answers
ClaudeReply ==
  /\ analyze.pc = "fetch"
  /\ \E reply \in ClaudeReplies :
       analyze' = [analyze EXCEPT
                     !.pc = "done",
                     !.reply = reply,
                     !.res = AnalysisResult(analyze.prospect, analyze.searchResults, reply)]
  /\ UNCHANGED <<top, BRAVE_API_KEY, ANTHROPIC_API_KEY, conc, search, monitor, batch, log>>

----------------------------------------------------------------------------
(* POST /api/monitor-prospect *)

NoBody == [pending |-> TRUE]

MonitorIdle == [pc |-> "idle", prospect |-> Undefined, keywords |-> JsUndefined,
                searchQuery |-> Undefined, searchData |-> NoBody,
                analysisData |-> NoBody, searchCalls |-> 0, analysisCalls |-> 0,
                rejecting |-> FALSE, res |-> NoResponse]
MonitorCall(prospect, keywords) ==
  [MonitorIdle EXCEPT !.pc = "start", !.prospect = prospect, !.keywords = keywords]

\* the catch of lines 249-255
MonitorFailure(message) ==
  Response(500, [error |-> "Monitoring failed", message |-> message])

\* the early return, and the error thrown while the query is built: the
\* response, or NoResponse when the request goes on
MonitorRejects(prospect, keywords) ==
  IF ~Truthy(prospect) \/ ~TruthyV(keywords)
    THEN Response(400, [error |-> "Prospect and keywords are required"])
  ELSE IF keywords.kind = "object"
    THEN MonitorFailure("keywords.slice is not a function")
  ELSE IF keywords.kind = "string"
    THEN MonitorFailure("keywords.slice(...).join is not a function")
  ELSE NoResponse

\* SearchQuery without the slice: every keyword is joined in
SearchQueryAllKeywords(prospect, keywords) ==
  "\"" \o prospect \o "\" (" \o Join(keywords.items, " OR ") \o ") 2025"

\* line 206
SearchQuery(prospect, keywords) ==
  "\"" \o prospect \o "\" (" \o Join(Slice(keywords.items, 4), " OR ") \o ") 2025"

\* line 217 / line 234: new Error(data.message || fallback)
SubStepError(data, fallback) == Or(Get(data, "message"), fallback)

\* lines 237-247
MonitorSuccess(prospect, searchQuery, searchData, analysisData) ==
  Response(200, [success |-> TRUE,
                 prospect |-> prospect,
                 searchResults |-> searchData.results,
                 analysis |-> analysisData.analysis,
                 metadata |-> [searchQuery |-> searchQuery,
                               totalResults |-> searchData.total,
                               timestamp |-> "<now>"]])

\* lines 199-212: validate, build the query, call the search endpoint; the
\* call is delivered to the search handler, or it is one that will reject
\* (rejecting)
MonitorProspect ==
  /\ monitor.pc = "start"
  /\ LET rej == MonitorRejects(monitor.prospect, monitor.keywords)
         query == SearchQuery(monitor.prospect, monitor.keywords)
     IN IF rej # NoResponse
          THEN /\ monitor' = [monitor EXCEPT !.pc = "done", !.res = rej]
               /\ UNCHANGED search
          ELSE \E delivered \in BOOLEAN :
                 IF delivered
                   THEN /\ monitor' = [monitor EXCEPT !.pc = "search",
                                                      !.searchQuery = query,
                                                      !.searchCalls = @ + 1]
                        /\ search' = SearchCall(query)
                   ELSE /\ monitor' = [monitor EXCEPT !.pc = "search",
                                                      !.searchQuery = query,
                                                      !.searchCalls = @ + 1,
                                                      !.rejecting = TRUE]
                        /\ UNCHANGED search
  /\ UNCHANGED <<top, BRAVE_API_KEY, ANTHROPIC_API_KEY, conc, analyze, batch, log>>

\* MonitorSearchDone without the check of searchData.success: the analysis
\* endpoint is called whatever the search answered
MonitorSearchDoneNoCheck ==
  /\ monitor.pc = "search"
  /\ search.pc = "done"
  /\ search' = SearchIdle
  /\ LET searchData == search.res.body
     IN /\ monitor' = [monitor EXCEPT !.pc = "analysis",
                                      !.searchData = searchData,
                                      !.analysisCalls = @ + 1]
        /\ analyze' = AnalyzeCall(monitor.prospect, monitor.keywords,
                                  IF "results" \in DOMAIN searchData
                                    THEN JsArray(searchData.results)
                                    ELSE JsUndefined)
  /\ UNCHANGED <<top, BRAVE_API_KEY, ANTHROPIC_API_KEY, conc, batch, log>>

\* lines 214-229: the search endpoint has answered; call the analysis endpoint
MonitorSearchDone ==
  /\ monitor.pc = "search"
  /\ search.pc = "done"
  /\ search' = SearchIdle
  /\ LET searchData == search.res.body
     IN IF ~Success(searchData)
          THEN /\ monitor' = [monitor EXCEPT
                                !.pc = "done",
                                !.searchData = searchData,
                                !.res = MonitorFailure(SubStepError(searchData,
                                                                    "Search failed"))]
               /\ UNCHANGED analyze
          ELSE \E delivered \in BOOLEAN :
                 IF delivered
                   THEN /\ monitor' = [monitor EXCEPT !.pc = "analysis",
                                                      !.searchData = searchData,
                                                      !.analysisCalls = @ + 1]
                        /\ analyze' = AnalyzeCall(monitor.prospect, monitor.keywords,
                                                  JsArray(searchData.results))
                   ELSE /\ monitor' = [monitor EXCEPT !.pc = "analysis",
                                                      !.searchData = searchData,
                                                      !.analysisCalls = @ + 1,
                                                      !.rejecting = TRUE]
                        /\ UNCHANGED analyze
  /\ UNCHANGED <<top, BRAVE_API_KEY, ANTHROPIC_API_KEY, conc, batch, log>>

\* lines 249-255: the rejection of the call in flight (line 208 or line 221)
\* reaches the handler
MonitorCallRejected ==
  /\ monitor.pc \in {"search", "analysis"}
  /\ monitor.rejecting
  /\ monitor' = [monitor EXCEPT !.pc = "done", !.rejecting = FALSE,
                                !.res = MonitorFailure(FetchErrorMessage)]
  /\ UNCHANGED <<top, BRAVE_API_KEY, ANTHROPIC_API_KEY, conc, search, analyze, batch, log>>

\* lines 231-255: the analysis endpoint has answered
MonitorAnalysisDone ==
  /\ monitor.pc = "analysis"
  /\ analyze.pc = "done"
  /\ analyze' = AnalyzeIdle
  /\ LET analysisData == analyze.res.body
     IN monitor' = [monitor EXCEPT
          !.pc = "done",
          !.analysisData = analysisData,
          !.res = IF ~Success(analysisData)
                    THEN MonitorFailure(SubStepError(analysisData, "Analysis failed"))
                    ELSE MonitorSuccess(monitor.prospect, monitor.searchQuery,
                                        monitor.searchData, analysisData)]
  /\ UNCHANGED <<top, BRAVE_API_KEY, ANTHROPIC_API_KEY, conc, search, batch, log>>

----------------------------------------------------------------------------
(* POST /api/monitor-all-prospects *)

BatchIdle == [pc |-> "idle", prospects |-> JsUndefined, keywords |-> JsUndefined,
              i |-> 0, results |-> <<>>, rejecting |-> FALSE, res |-> NoResponse]
BatchCall(prospects, keywords) ==
  [BatchIdle EXCEPT !.pc = "start", !.prospects = prospects, !.keywords = keywords]

\* BatchRejects without the length checks
BatchRejectsNoLength(prospects, keywords) ==
  IF ~TruthyV(prospects) \/ prospects.kind # "array"
    THEN Response(400, [error |-> "Prospects array is required"])
  ELSE IF ~TruthyV(keywords) \/ keywords.kind # "array"
    THEN Response(400, [error |-> "Keywords array is required"])
  ELSE NoResponse

\* lines 263-269: the response, or NoResponse when the request goes on
BatchRejects(prospects, keywords) ==
  IF ~TruthyV(prospects) \/ prospects.kind # "array" \/ Len(prospects.items) = 0
    THEN Response(400, [error |-> "Prospects array is required"])
  ELSE IF ~TruthyV(keywords) \/ keywords.kind # "array" \/ Len(keywords.items) = 0
    THEN Response(400, [error |-> "Keywords array is required"])
  ELSE NoResponse

\* lines 290-294: the record the per-prospect catch pushes
CaughtFailure(prospect, message) ==
  [success |-> FALSE, prospect |-> prospect, error |-> message]

\* HasNews that tests the analysis, not its hasNews
HasNewsAnyAnalysis(r) ==
  /\ Success(r)
  /\ "analysis" \in DOMAIN r

\* r.success && r.analysis?.hasNews
HasNews(r) ==
  /\ Success(r)
  /\ "analysis" \in DOMAIN r
  /\ "hasNews" \in DOMAIN r.analysis
  /\ TruthyT(r.analysis.hasNews)

\* Summary counting as failed only the records whose success is false
SummaryStrict(prospects, results) ==
  [total |-> Len(prospects.items),
   successful |-> Len(SelectSeq(results, LAMBDA r : Success(r))),
   failed |-> Len(SelectSeq(results, LAMBDA r : "success" \in DOMAIN r /\ r.success = FALSE)),
   withNews |-> Len(SelectSeq(results, HasNews))]

\* Summary counting as successful every record whose success is not false
SummaryLoose(prospects, results) ==
  [total |-> Len(prospects.items),
   successful |-> Len(SelectSeq(results,
                                LAMBDA r : ~("success" \in DOMAIN r /\ r.success = FALSE))),
   failed |-> Len(SelectSeq(results, LAMBDA r : ~Success(r))),
   withNews |-> Len(SelectSeq(results, HasNews))]

\* lines 301-306
Summary(prospects, results) ==
  [total |-> Len(prospects.items),
   successful |-> Len(SelectSeq(results, LAMBDA r : Success(r))),
   failed |-> Len(SelectSeq(results, LAMBDA r : ~Success(r))),
   withNews |-> Len(SelectSeq(results, HasNews))]

\* AtLoopHead when the call is not awaited
AtLoopHeadNoAwait == batch.pc \in {"loop", "await"}

\* the loop is at its head: no call of this run is awaited
AtLoopHead == batch.pc = "loop"

\* lines 261-271: validate, start with an empty result list
MonitorAllProspects ==
  /\ batch.pc = "start"
  /\ LET rej == BatchRejects(batch.prospects, batch.keywords)
     IN batch' = IF rej # NoResponse
                   THEN [batch EXCEPT !.pc = "done", !.res = rej]
                   ELSE [batch EXCEPT !.pc = "loop", !.i = 1]
  /\ UNCHANGED <<top, BRAVE_API_KEY, ANTHROPIC_API_KEY, conc, search, analyze, monitor, log>>

\* lines 274-280: the call for the next prospect is made; it is delivered to
\* the monitor handler, or it is one that will reject (rejecting)
BatchFetch ==
  /\ AtLoopHead
  /\ batch.i <= Len(batch.prospects.items)
  /\ LET prospect == batch.prospects.items[batch.i]
     IN /\ log' = Append(log, [ev |-> "start", i |-> batch.i, prospect |-> prospect])
        /\ \E delivered \in BOOLEAN :
             IF delivered
               THEN /\ monitor' = MonitorCall(prospect, batch.keywords)
                    /\ batch' = [batch EXCEPT !.pc = "await"]
               ELSE /\ batch' = [batch EXCEPT !.pc = "await", !.rejecting = TRUE]
                    /\ UNCHANGED monitor
  /\ UNCHANGED <<top, BRAVE_API_KEY, ANTHROPIC_API_KEY, conc, search, analyze>>

\* BatchCallRejected without the per-prospect try/catch: the rejection
\* reaches the handler's outer catch
BatchCallRejectedNoCatch ==
  /\ batch.pc = "await"
  /\ batch.rejecting
  /\ batch' = [batch EXCEPT
                 !.pc = "done",
                 !.rejecting = FALSE,
                 !.res = Response(500, [error |-> "Batch monitoring failed",
                                        message |-> FetchErrorMessage])]
  /\ log' = Append(log, [ev |-> "throw", i |-> batch.i])
  /\ UNCHANGED <<top, BRAVE_API_KEY, ANTHROPIC_API_KEY, conc, search, analyze, monitor>>

\* lines 288-295: the rejection of the call in flight reaches the handler;
\* the catch pushes a failure record and the loop goes on, with no delay
BatchCallRejected ==
  /\ batch.pc = "await"
  /\ batch.rejecting
  /\ batch' = [batch EXCEPT
                 !.pc = "loop",
                 !.rejecting = FALSE,
                 !.results = Append(@, CaughtFailure(batch.prospects.items[batch.i],
                                                     FetchErrorMessage)),
                 !.i = @ + 1]
  /\ log' = Append(log, [ev |-> "throw", i |-> batch.i])
  /\ UNCHANGED <<top, BRAVE_API_KEY, ANTHROPIC_API_KEY, conc, search, analyze, monitor>>

\* lines 282-283: the monitor endpoint has answered; its body is pushed
BatchPush ==
  /\ batch.pc = "await"
  /\ monitor.pc = "done"
  /\ batch' = [batch EXCEPT !.pc = "sleep", !.results = Append(@, monitor.res.body)]
  /\ log' = Append(log, [ev |-> "end", i |-> batch.i, prospect |-> monitor.prospect,
                         body |-> monitor.res.body])
  /\ monitor' = MonitorIdle
  /\ UNCHANGED <<top, BRAVE_API_KEY, ANTHROPIC_API_KEY, conc, search, analyze>>

\* line 286: the 1000 ms timer fires
BatchDelay ==
  /\ batch.pc = "sleep"
  /\ batch' = [batch EXCEPT !.pc = "loop", !.i = @ + 1]
  /\ log' = Append(log, [ev |-> "pause", i |-> batch.i])
  /\ UNCHANGED <<top, BRAVE_API_KEY, ANTHROPIC_API_KEY, conc, search, analyze, monitor>>

\* lines 298-307: the loop is over
BatchRespond ==
  /\ AtLoopHead
  /\ batch.i > Len(batch.prospects.items)
  /\ batch' = [batch EXCEPT
                 !.pc = "done",
                 !.res = Response(200, [success |-> TRUE,
                                        results |-> batch.results,
                                        summary |-> Summary(batch.prospects,
                                                            batch.results)])]
  /\ UNCHANGED <<top, BRAVE_API_KEY, ANTHROPIC_API_KEY, conc, search, analyze, monitor, log>>

----------------------------------------------------------------------------
(* The client: one request to one of the four endpoints *)

Keywords == <<"funding", "launch", "hiring", "partnership", "ipo", "merger", "layoffs">>
Companies == <<"Acme", "Globex", "Initech", "Umbrella", "Hooli">>
Numerals == <<"1", "2", "3", "4", "5", "6", "7", "8", "9", "10", "11", "12">>

\* the i-th search result a client hands to the analysis endpoint
Article(i) ==
  [title |-> "Article " \o Numerals[i], url |-> "https://news.example/" \o Numerals[i],
   description |-> "No description", published |-> "Recent", favicon |-> Null]

\* a JSON string where an array is expected, and the empty string
TextValue == JsText(<<"f", "u", "n", "d", "i", "n", "g", " ", "n", "e", "w", "s">>)
EmptyText == JsText(<<>>)
NonArrays == {JsUndefined, JsObject, TextValue, EmptyText}

QueryInputs == {Undefined, "", "acme funding"}
ProspectInputs == {Undefined, "", "Acme"}
KeywordInputs ==
  NonArrays \cup {JsArray(SubSeq(Keywords, 1, n)) : n \in 0..MaxKeywords}
SearchResultInputs ==
  NonArrays
  \cup {JsArray([i \in 1..n |-> Article(i)]) : n \in 0..MaxAnalyzed}
\* prospect lists: the i-th prospect is the i-th company, or an empty name
ProspectListInputs ==
  NonArrays
  \cup {JsArray(l) : l \in UNION {{f \in [1..n -> {""} \cup {Companies[j] : j \in 1..n}] :
                                     \A j \in 1..n : f[j] \in {"", Companies[j]}} :
                                  n \in 0..MaxProspects}}
BatchKeywordInputs ==
  NonArrays \cup {JsArray(<<>>), JsArray(SubSeq(Keywords, 1, 2))}

ClientSearch ==
  /\ top = "none"
  /\ top' = "search"
  /\ \E query \in QueryInputs : search' = SearchCall(query)
  /\ UNCHANGED <<BRAVE_API_KEY, ANTHROPIC_API_KEY, conc, analyze, monitor, batch, log>>

ClientAnalyze ==
  /\ top = "none"
  /\ top' = "analyze"
  /\ \E prospect \in ProspectInputs, keywords \in KeywordInputs,
        searchResults \in SearchResultInputs :
       analyze' = AnalyzeCall(prospect, keywords, searchResults)
  /\ UNCHANGED <<BRAVE_API_KEY, ANTHROPIC_API_KEY, conc, search, monitor, batch, log>>

ClientMonitor ==
  /\ top = "none"
  /\ top' = "monitor"
  /\ \E prospect \in ProspectInputs, keywords \in KeywordInputs :
       monitor' = MonitorCall(prospect, keywords)
  /\ UNCHANGED <<BRAVE_API_KEY, ANTHROPIC_API_KEY, conc, search, analyze, batch, log>>

ClientBatch ==
  /\ top = "none"
  /\ top' = "batch"
  /\ \E prospects \in ProspectListInputs, keywords \in BatchKeywordInputs :
       batch' = BatchCall(prospects, keywords)
  /\ UNCHANGED <<BRAVE_API_KEY, ANTHROPIC_API_KEY, conc, search, analyze, monitor, log>>

----------------------------------------------------------------------------
(* Specification *)

\* two batch requests in the same process
Runs == {1, 2}

\* one invocation of the batch handler: its locals but the result list
ConcRunIdle == [pc |-> "idle", prospects |-> JsUndefined, keywords |-> JsUndefined,
                i |-> 0, rejecting |-> FALSE, res |-> NoResponse]

\* run: the invocations; results: the result lists, by the place that holds
\* them; calls: how the monitor calls of each invocation ended, in order
\* (observation only)
ConcIdle == [run |-> [r \in Runs |-> ConcRunIdle],
             results |-> [r \in Runs |-> <<>>],
             calls |-> [r \in Runs |-> <<>>]]

Init ==
  /\ top = "none"
  /\ BRAVE_API_KEY \in KeyValues
  /\ ANTHROPIC_API_KEY \in KeyValues
  /\ search = SearchIdle
  /\ analyze = AnalyzeIdle
  /\ monitor = MonitorIdle
  /\ batch = BatchIdle
  /\ log = <<>>
  /\ conc = ConcIdle

Next ==
  \/ ClientSearch
  \/ ClientAnalyze
  \/ ClientMonitor
  \/ ClientBatch
  \/ WebSearch
  \/ BraveReply
  \/ AnalyzeProspect
  \/ ClaudeReply
  \/ MonitorProspect
  \/ MonitorSearchDone
  \/ MonitorCallRejected
  \/ MonitorAnalysisDone
  \/ MonitorAllProspects
  \/ BatchFetch
  \/ BatchCallRejected
  \/ BatchPush
  \/ BatchDelay
  \/ BatchRespond

Spec == Init /\ [][Next]_vars

----------------------------------------------------------------------------
(* Two batch requests served concurrently *)

\* longest prospect list given to the first of the two concurrent batch
\* requests
MaxConcurrentProspects == 2

\* the result list of an invocation that shares it with the other one
ResultsShared(r) == 1

\* line 271: const results = [] is a local of the invocation
ResultsOf(r) == r

\* what /api/web-search answers to the call of line 208, once delivered
SearchAnswers(query) ==
  LET rej == WebSearchRejects(query, BRAVE_API_KEY)
  IN IF rej # NoResponse
       THEN {rej.body}
       ELSE {WebSearchResult(query, reply).body : reply \in BraveReplies}

\* what /api/analyze-prospect answers to the call of line 221, once delivered
AnalysisAnswers(prospect, keywords, searchResults) ==
  LET rej == AnalyzeRejects(prospect, keywords, searchResults, ANTHROPIC_API_KEY)
  IN IF rej # NoResponse
       THEN {rej.body}
       ELSE {AnalysisResult(prospect, searchResults, reply).body :
               reply \in ClaudeReplies}

\* the response of /api/monitor-prospect once the analysis call is over
AfterAnalysis(prospect, query, searchData, analysisData) ==
  IF ~Success(analysisData)
    THEN MonitorFailure(SubStepError(analysisData, "Analysis failed"))
    ELSE MonitorSuccess(prospect, query, searchData, analysisData)

\* the responses of /api/monitor-prospect once the search call has answered
AfterSearch(prospect, keywords, query, searchData) ==
  IF ~Success(searchData)
    THEN {MonitorFailure(SubStepError(searchData, "Search failed"))}
    ELSE {MonitorFailure(FetchErrorMessage)}
         \cup {AfterAnalysis(prospect, query, searchData, analysisData) :
                 analysisData \in AnalysisAnswers(prospect, keywords,
                                                  JsArray(searchData.results))}

\* what /api/monitor-prospect may answer to the batch handler's call, once
\* delivered: the bodies of lines 199-255 over every behaviour of the two
\* providers and of the loopback calls
MonitorOutcomes(prospect, keywords) ==
  LET rej == MonitorRejects(prospect, keywords)
      query == SearchQuery(prospect, keywords)
  IN IF rej # NoResponse
       THEN {rej.body}
       ELSE {r.body : r \in
               {MonitorFailure(FetchErrorMessage)}
               \cup UNION {AfterSearch(prospect, keywords, query, searchData) :
                             searchData \in SearchAnswers(query)}}

\* the requests: the first lists up to MaxConcurrentProspects companies, the
\* second, served meanwhile, at most one, a company the first does not list;
\* either may come with no prospect or no keyword
ConcProspectInputs(r) ==
  IF r = 1
    THEN {JsArray(SubSeq(Companies, 1, n)) : n \in 0..MaxConcurrentProspects}
    ELSE {JsArray(<<>>), JsArray(<<Companies[Len(Companies)]>>)}
ConcKeywordInputs(r) == {JsArray(<<>>), JsArray(<<Keywords[r]>>)}

\* the request of run r arrives
ConcRequest(r) ==
  /\ conc.run[r].pc = "idle"
  /\ \E prospects \in ConcProspectInputs(r), keywords \in ConcKeywordInputs(r) :
       conc' = [conc EXCEPT !.run[r] = [ConcRunIdle EXCEPT !.pc = "start",
                                                              !.prospects = prospects,
                                                              !.keywords = keywords]]
  /\ UNCHANGED <<top, BRAVE_API_KEY, ANTHROPIC_API_KEY, search, analyze, monitor, batch, log>>

\* lines 261-271 in run r
ConcValidate(r) ==
  /\ conc.run[r].pc = "start"
  /\ LET rej == BatchRejects(conc.run[r].prospects, conc.run[r].keywords)
     IN conc' = IF rej # NoResponse
                  THEN [conc EXCEPT !.run[r].pc = "done", !.run[r].res = rej]
                  ELSE [conc EXCEPT !.run[r].pc = "loop", !.run[r].i = 1,
                                    !.results[ResultsOf(r)] = <<>>]
  /\ UNCHANGED <<top, BRAVE_API_KEY, ANTHROPIC_API_KEY, search, analyze, monitor, batch, log>>

\* lines 274-280 in run r: the call is made; it is delivered, or it is one
\* that will reject
ConcFetch(r) ==
  /\ conc.run[r].pc = "loop"
  /\ conc.run[r].i <= Len(conc.run[r].prospects.items)
  /\ \E delivered \in BOOLEAN :
       conc' = [conc EXCEPT !.run[r].pc = "await", !.run[r].rejecting = ~delivered]
  /\ UNCHANGED <<top, BRAVE_API_KEY, ANTHROPIC_API_KEY, search, analyze, monitor, batch, log>>

\* lines 288-295 in run r: the rejection reaches the handler
ConcCallRejected(r) ==
  /\ conc.run[r].pc = "await"
  /\ conc.run[r].rejecting
  /\ LET prospect == conc.run[r].prospects.items[conc.run[r].i]
     IN conc' = [conc EXCEPT
                   !.run[r].pc = "loop",
                   !.run[r].rejecting = FALSE,
                   !.run[r].i = @ + 1,
                   !.results[ResultsOf(r)] =
                      Append(@, CaughtFailure(prospect, FetchErrorMessage)),
                   !.calls[r] = Append(@, [threw |-> TRUE, body |-> NoBody])]
  /\ UNCHANGED <<top, BRAVE_API_KEY, ANTHROPIC_API_KEY, search, analyze, monitor, batch, log>>

\* lines 282-283 in run r: the monitor endpoint answers
ConcPush(r) ==
  /\ conc.run[r].pc = "await"
  /\ ~conc.run[r].rejecting
  /\ \E body \in MonitorOutcomes(conc.run[r].prospects.items[conc.run[r].i],
                                 conc.run[r].keywords) :
       conc' = [conc EXCEPT !.run[r].pc = "sleep",
                            !.results[ResultsOf(r)] = Append(@, body),
                            !.calls[r] = Append(@, [threw |-> FALSE, body |-> body])]
  /\ UNCHANGED <<top, BRAVE_API_KEY, ANTHROPIC_API_KEY, search, analyze, monitor, batch, log>>

\* line 286 in run r
ConcDelay(r) ==
  /\ conc.run[r].pc = "sleep"
  /\ conc' = [conc EXCEPT !.run[r].pc = "loop", !.run[r].i = @ + 1]
  /\ UNCHANGED <<top, BRAVE_API_KEY, ANTHROPIC_API_KEY, search, analyze, monitor, batch, log>>

\* lines 298-307 in run r
ConcRespond(r) ==
  /\ conc.run[r].pc = "loop"
  /\ conc.run[r].i > Len(conc.run[r].prospects.items)
  /\ LET results == conc.results[ResultsOf(r)]
     IN conc' = [conc EXCEPT
                   !.run[r].pc = "done",
                   !.run[r].res = Response(200, [success |-> TRUE,
                                                 results |-> results,
                                                 summary |-> Summary(conc.run[r].prospects,
                                                                     results)])]
  /\ UNCHANGED <<top, BRAVE_API_KEY, ANTHROPIC_API_KEY, search, analyze, monitor, batch, log>>

ConcNext ==
  \E r \in Runs :
    \/ ConcRequest(r)
    \/ ConcValidate(r)
    \/ ConcFetch(r)
    \/ ConcCallRejected(r)
    \/ ConcPush(r)
    \/ ConcDelay(r)
    \/ ConcRespond(r)

\* the node event loop interleaves the steps of the two handlers at their awaits
ConcSpec == Init /\ [][ConcNext]_vars

----------------------------------------------------------------------------
(* Observations on a batch run *)

\* searchUrl.searchParams.append('count', '10')
ResultCount == 10

\* the request is one the batch monitor accepts
ValidBatch ==
  /\ batch.prospects.kind = "array" /\ Len(batch.prospects.items) > 0
  /\ batch.keywords.kind = "array" /\ Len(batch.keywords.items) > 0

NProspects == Len(batch.prospects.items)

\* the monitor call for the i-th prospect was made / threw / returned
Started(i) == \E p \in DOMAIN log : log[p].ev = "start" /\ log[p].i = i
Threw(i) == \E p \in DOMAIN log : log[p].ev = "throw" /\ log[p].i = i
Returned(i) == \E p \in DOMAIN log : log[p].ev = "end" /\ log[p].i = i
\* the monitor call for the i-th prospect returned an error response
ReturnedError(i) ==
  \E p \in DOMAIN log : log[p].ev = "end" /\ log[p].i = i /\ ~Success(log[p].body)
CallFailed(i) == Threw(i) \/ ReturnedError(i)
FailedCalls == {i \in 1..NProspects : CallFailed(i)}

\* the text of the error a failure response reports: its message when it has
\* one, else its error
Reported(body) == IF "message" \in DOMAIN body THEN body.message ELSE body.error
\* the message of the error the call for the i-th prospect ended in
ErrorOf(i) ==
  IF Threw(i) THEN FetchErrorMessage
  ELSE LET p == CHOOSE p \in DOMAIN log : log[p].ev = "end" /\ log[p].i = i
       IN Reported(log[p].body)

BatchDone == top = "batch" /\ batch.pc = "done"

\* the model's text, fences aside, is not the text of one JSON value
NotJsonText(text) ==
  LET body == SelectSeq(text, LAMBDA tok : tok.t \in {"prose", "json"})
  IN ~(Len(body) = 1 /\ body[1].t = "json")
\* the JSON value has no company field or no boolean hasNews field
LacksVerdictFields(v) ==
  \/ v = JsonNull
  \/ "company" \notin DOMAIN v
  \/ "hasNews" \notin DOMAIN v
  \/ v.hasNews.type # "boolean"
MalformedOutput(text) ==
  \/ NotJsonText(text)
  \/ LacksVerdictFields(SelectSeq(text, LAMBDA tok : tok.t = "json")[1].v)

----------------------------------------------------------------------------
(* Claims *)

\* C1: for a non-empty prospect list and a non-empty keyword list the batch
\* monitor is never stuck before its response, its response is a 200 success
\* carrying the results and a summary, and whichever calls failed (returned an
\* error or threw) the call for every prospect of the list was made.
C1_BatchAlwaysCompletes ==
  (top = "batch" /\ ValidBatch) =>
    /\ batch.pc # "done" => ENABLED Next
    /\ batch.pc = "done" =>
         /\ batch.res.status = 200
         /\ Success(batch.res.body)
         /\ DOMAIN batch.res.body = {"success", "results", "summary"}
         /\ Len(batch.res.body.results) = NProspects
         /\ \A i \in 1..NProspects : Started(i)

\* a three-prospect run that ended although its first call threw and its
\* second returned an error
C1_Witness ==
  /\ BatchDone /\ ValidBatch /\ NProspects = 3
  /\ Threw(1) /\ ReturnedError(2) /\ Returned(3) /\ ~ReturnedError(3)
  /\ batch.res.status = 200

\* C2: when exactly one monitor call of a run over N prospects failed, the one
\* at position k, the result list has length N, its entry k is the only one
\* that is no success, summary.failed = 1 and summary.successful = N - 1.
C2_SingleFailure ==
  (BatchDone /\ ValidBatch /\ Cardinality(FailedCalls) = 1) =>
    LET results == batch.res.body.results
        summary == batch.res.body.summary
    IN /\ Len(results) = NProspects
       /\ \A i \in 1..NProspects : Success(results[i]) <=> i \notin FailedCalls
       /\ summary.failed = 1
       /\ summary.successful = NProspects - 1

\* a three-prospect run whose second call alone failed, with an error response
C2_Witness ==
  /\ BatchDone /\ ValidBatch /\ NProspects = 3
  /\ FailedCalls = {2} /\ ReturnedError(2)

\* C3: every prospect whose monitor call ended in an error, thrown or
\* returned, is recorded as {success: false, prospect: its name, error: the
\* message of the error}.
C3_FailureRecordForm ==
  top = "batch" =>
    \A i \in 1..Len(batch.results) :
      CallFailed(i) =>
        /\ DOMAIN batch.results[i] = {"success", "prospect", "error"}
        /\ batch.results[i].success = FALSE
        /\ batch.results[i].prospect = batch.prospects.items[i]
        /\ batch.results[i].error = ErrorOf(i)

\* C4: the calls of a run are made one at a time and in input order: the
\* calls made so far are those for prospects 1..n, each made once, the call
\* for a prospect is made only when the outcome of every earlier one is in
\* the result list, at most one call is in flight, and results[i] is the
\* outcome of the call made for prospects[i].
C4_Sequential ==
  top = "batch" =>
    LET starts == SelectSeq(log, LAMBDA e : e.ev = "start")
        InFlight == {i \in 1..NProspects : Started(i) /\ ~Threw(i) /\ ~Returned(i)}
    IN /\ Cardinality(InFlight) <= 1
       /\ \A p \in DOMAIN starts : starts[p].i = p
       /\ Len(starts) <= Len(batch.results) + 1
       /\ \A p \in DOMAIN starts :
            starts[p].prospect = batch.prospects.items[starts[p].i]
       /\ InFlight # {} =>
            /\ InFlight = {Len(batch.results) + 1}
            /\ ~batch.rejecting => monitor.prospect = batch.prospects.items[batch.i]
       /\ \A p \in DOMAIN log :
            log[p].ev = "start" =>
              \A j \in 1..(log[p].i - 1) :
                \E q \in 1..(p - 1) : log[q].ev \in {"end", "throw"} /\ log[q].i = j
       /\ \A i \in 1..Len(batch.results) :
            \/ Threw(i) /\ batch.results[i]
                             = CaughtFailure(batch.prospects.items[i], FetchErrorMessage)
            \/ \E p \in DOMAIN log :
                 /\ log[p].ev = "end" /\ log[p].i = i
                 /\ log[p].prospect = batch.prospects.items[i]
                 /\ log[p].body = batch.results[i]

\* the third call of a run is in flight after the first threw and the second
\* returned
C4_Witness ==
  /\ top = "batch" /\ batch.pc = "await" /\ batch.i = 3
  /\ Threw(1) /\ Returned(2) /\ Started(3)
  /\ monitor.pc = "analysis"

\* C5: when the single-prospect monitor fails because the search step or the
\* analysis step reported a failure, the message of its failure response is
\* the error text that step reported.
C5_SameErrorPropagated ==
  (top \in {"monitor", "batch"} /\ monitor.pc = "done") =>
    /\ (monitor.searchData # NoBody /\ ~Success(monitor.searchData)) =>
         monitor.res.body.message = Reported(monitor.searchData)
    /\ (monitor.analysisData # NoBody /\ ~Success(monitor.analysisData)) =>
         monitor.res.body.message = Reported(monitor.analysisData)

\* C6: when the LLM provider answered 2xx with a text that, fences aside, is
\* not JSON, or is JSON without a company field or without a boolean hasNews
\* field, the analysis endpoint answers 200 success with the fallback verdict:
\* hasNews false, confidence "low".
C6_FallbackOnMalformed ==
  (analyze.pc = "done" /\ analyze.reply.kind = "ok" /\ analyze.reply.content
     /\ MalformedOutput(analyze.reply.text)) =>
    /\ analyze.res.status = 200
    /\ Success(analyze.res.body)
    /\ analyze.res.body.analysis.hasNews = JsBool(FALSE)
    /\ analyze.res.body.analysis.confidence = "low"
    /\ analyze.res.body.analysis.summary = "Unable to analyze search results properly"
    /\ analyze.res.body.analysis.company = analyze.prospect

\* a direct analysis whose model output was JSON without hasNews
C6_Witness ==
  /\ top = "analyze" /\ analyze.pc = "done"
  /\ analyze.reply = ClaudeText(<<Json(NoHasNews)>>)
  /\ analyze.res.status = 200
  /\ analyze.res.body.analysis.confidence = "low"

\* C7: one invocation of the single-prospect monitor calls the search step at
\* most once and the analysis step at most once, the analysis step only after
\* the search step answered success; when the search step failed the monitor
\* has answered with the failure and the analysis step was not called.
C7_NoRetry ==
  top \in {"monitor", "batch"} =>
    /\ monitor.searchCalls <= 1
    /\ monitor.analysisCalls <= 1
    /\ search.pc # "idle" => monitor.pc = "search" /\ monitor.searchCalls = 1
    /\ analyze.pc # "idle" => monitor.pc = "analysis"
    /\ monitor.analysisCalls = 1 =>
         monitor.searchCalls = 1 /\ Success(monitor.searchData)
    /\ (monitor.searchData # NoBody /\ ~Success(monitor.searchData)) =>
         /\ monitor.pc = "done"
         /\ monitor.analysisCalls = 0
         /\ ~Success(monitor.res.body)
         /\ analyze.pc = "idle"

\* a monitor run that ended on the search step's failure
C7_Witness ==
  /\ top = "monitor" /\ monitor.pc = "done"
  /\ monitor.searchCalls = 1 /\ monitor.analysisCalls = 0
  /\ monitor.searchData = [error |-> "Search failed",
                           message |-> "Brave API error: 429 Too Many Requests"]

\* C8: the call for a prospect that is not the first is made only after the
\* 1-second pause that follows the previous prospect has elapsed, whether the
\* previous call succeeded, returned an error or threw.
C8_PauseBetweenCalls ==
  top = "batch" =>
    \A p \in DOMAIN log :
      (log[p].ev = "start" /\ log[p].i > 1) =>
        \E q \in 1..(p - 1) : log[q].ev = "pause" /\ log[q].i = log[p].i - 1

\* C9: a success response of the search endpoint holds at most 10 results,
\* echoes the query and has total equal to the number of results.
C9_SearchSuccessShape ==
  (search.pc = "done" /\ Success(search.res.body)) =>
    /\ Len(search.res.body.results) <= ResultCount
    /\ search.res.body.query = search.query
    /\ search.res.body.total = Len(search.res.body.results)

\* C10: a search whose query is empty or missing is answered 400 with the
\* validation error and sends nothing to the search provider, whether or not
\* the credential is configured.
C10_EmptyQueryRejected ==
  (search.pc # "idle" /\ ~Truthy(search.query)) =>
    /\ search.sent = <<>>
    /\ search.pc \in {"start", "done"}
    /\ search.pc = "done" =>
         search.res = Response(400, [error |-> "Query parameter is required"])

\* an empty query rejected while no credential is configured
C10_Witness ==
  /\ top = "search" /\ search.pc = "done" /\ search.query = ""
  /\ ~Truthy(BRAVE_API_KEY)
  /\ search.res.status = 400 /\ search.sent = <<>>


\* the disjunction of the first min(4, n) keywords, written out
FirstFour(ks) ==
  IF Len(ks) = 0 THEN ""
  ELSE IF Len(ks) = 1 THEN ks[1]
  ELSE IF Len(ks) = 2 THEN ks[1] \o " OR " \o ks[2]
  ELSE IF Len(ks) = 3 THEN ks[1] \o " OR " \o ks[2] \o " OR " \o ks[3]
  ELSE ks[1] \o " OR " \o ks[2] \o " OR " \o ks[3] \o " OR " \o ks[4]

\* C11: the query the single-prospect monitor builds is the prospect in
\* double quotes, a space, the first min(4, n) keywords in their order joined
\* by " OR " in parentheses, a space and the token 2025; it is the query the
\* search endpoint receives and the one the result's metadata reports.
C11_QueryConstruction ==
  (top = "monitor" /\ monitor.searchQuery # Undefined) =>
    LET expected == "\"" \o monitor.prospect \o "\"" \o " " \o "("
                      \o FirstFour(monitor.keywords.items) \o ")" \o " " \o "2025"
    IN /\ monitor.searchQuery = expected
       /\ search.pc # "idle" => search.query = expected
       /\ (monitor.pc = "done" /\ Success(monitor.res.body)) =>
            monitor.res.body.metadata.searchQuery = expected

\* the query of the spec's example, with a fifth keyword left out
C11_Witness ==
  /\ top = "monitor" /\ search.pc = "start"
  /\ monitor.keywords = JsArray(<<"funding", "launch", "hiring", "partnership", "ipo">>)
  /\ search.query = "\"Acme\" (funding OR launch OR hiring OR partnership) 2025"

\* the analysis endpoint answered with the fallback verdict
FellBack ==
  /\ analyze.pc = "done"
  /\ analyze.res.status = 200
  /\ analyze.reply.kind = "ok" /\ analyze.reply.content
  /\ analyze.res.body.analysis.summary = "Unable to analyze search results properly"

\* C12: a fallback verdict passes the validation applied to a parsed model
\* response: its company is present and not empty and its hasNews is a
\* boolean, for every request the analysis endpoint accepts.
C12_FallbackIsValid ==
  FellBack =>
    /\ "company" \in DOMAIN analyze.res.body.analysis
    /\ analyze.res.body.analysis.company \notin {Undefined, Null, ""}
    /\ "hasNews" \in DOMAIN analyze.res.body.analysis
    /\ analyze.res.body.analysis.hasNews.type = "boolean"
    /\ ValidStructure(analyze.res.body.analysis)

\* a direct analysis that fell back on prose, with no search result to cite
C12_Witness ==
  /\ top = "analyze" /\ FellBack
  /\ analyze.reply = ClaudeText(<<Prose>>)
  /\ analyze.searchResults = JsArray(<<>>)
  /\ analyze.res.body.analysis.sourceUrl = Null

\* C13: a batch request whose prospect list or keyword list is missing, not
\* an array or empty is answered 400 with the validation error, and no
\* single-prospect monitor call is made.
C13_InvalidBatchRejected ==
  (top = "batch" /\ ~ValidBatch) =>
    /\ log = <<>>
    /\ monitor = MonitorIdle
    /\ batch.results = <<>>
    /\ batch.pc \in {"start", "done"}
    /\ batch.pc = "done" =>
         /\ batch.res.status = 400
         /\ batch.res.body \in {[error |-> "Prospects array is required"],
                                [error |-> "Keywords array is required"]}

\* a batch request with prospects but an empty keyword list, rejected
C13_Witness ==
  /\ BatchDone /\ NProspects = 2 /\ batch.prospects.kind = "array"
  /\ batch.keywords = JsArray(<<>>)
  /\ batch.res = Response(400, [error |-> "Keywords array is required"])


\* searchResults.slice(0, 8)
PromptResults == 8

\* C15: the prompt sent to the LLM provider embeds the first min(8, n) of the
\* n search results given, in their order, and none of those after the
\* eighth.
C15_PromptPrefix ==
  (analyze.sent # <<>> /\ analyze.searchResults.kind = "array") =>
    LET given == analyze.searchResults.items
        embedded == analyze.sent[1].searchResults
    IN /\ Len(embedded) = (IF Len(given) < PromptResults THEN Len(given) ELSE PromptResults)
       /\ \A i \in 1..Len(embedded) : embedded[i] = given[i]
       /\ \A j \in (PromptResults + 1)..Len(given) :
            \A i \in 1..Len(embedded) : embedded[i] # given[j]

\* nine results given, the first eight embedded
C15_Witness ==
  /\ top = "analyze" /\ analyze.pc = "fetch"
  /\ Len(analyze.searchResults.items) = 9
  /\ Len(analyze.sent[1].searchResults) = 8
  /\ analyze.sent[1].searchResults[8] = Article(8)

\* C16: in every success response of the batch monitor, summary.total is the
\* number of prospects given and the length of the result list,
\* successful + failed = total, and withNews <= successful.
C16_SummaryConsistent ==
  (BatchDone /\ Success(batch.res.body)) =>
    LET summary == batch.res.body.summary
    IN /\ summary.total = NProspects
       /\ summary.total = Len(batch.res.body.results)
       /\ summary.successful + summary.failed = summary.total
       /\ summary.withNews <= summary.successful

\* a run with a thrown call, a returned error and a success with news
C16_Witness ==
  /\ BatchDone /\ NProspects = 3
  /\ Threw(1) /\ ReturnedError(2)
  /\ batch.res.body.summary = [total |-> 3, successful |-> 1, failed |-> 2, withNews |-> 1]

\* the verdict is the fallback one
IsFallbackVerdict(analysis) ==
  /\ analysis.summary = "Unable to analyze search results properly"
  /\ analysis.confidence = "low"
\* the prospects of the run whose monitor call returned a fallback verdict
FallbackCalls ==
  {i \in 1..NProspects :
     \E p \in DOMAIN log :
       /\ log[p].ev = "end" /\ log[p].i = i
       /\ "analysis" \in DOMAIN log[p].body
       /\ IsFallbackVerdict(log[p].body.analysis)}

\* C17: a prospect whose analysis fell back is a success end to end: the
\* single-prospect monitor answers 200 success with the fallback verdict, and
\* the batch monitor counts the prospect as successful, not as failed and
\* not as one with news.
C17_FallbackIsSuccess ==
  /\ (top \in {"monitor", "batch"} /\ monitor.pc = "done"
        /\ Success(monitor.analysisData)
        /\ IsFallbackVerdict(monitor.analysisData.analysis)) =>
       /\ monitor.res.status = 200
       /\ Success(monitor.res.body)
       /\ monitor.res.body.analysis = monitor.analysisData.analysis
  /\ (BatchDone /\ Success(batch.res.body)) =>
       LET results == batch.res.body.results
           summary == batch.res.body.summary
           others == {i \in 1..NProspects : i \notin FallbackCalls}
       IN /\ \A i \in FallbackCalls : Success(results[i])
          /\ summary.successful >= Cardinality(FallbackCalls)
          /\ summary.failed <= Cardinality(others)
          /\ summary.withNews <= Cardinality(others)

\* a two-prospect run: the first analysis fell back, the second found news
C17_Witness ==
  /\ BatchDone /\ NProspects = 2
  /\ FallbackCalls = {1}
  /\ batch.res.body.summary = [total |-> 2, successful |-> 2, failed |-> 0, withNews |-> 1]


\* the result list a run builds from its prospects and the outcomes of its
\* own calls, when it runs alone
AloneResults(prospects, calls) ==
  [i \in 1..Len(calls) |->
     IF calls[i].threw
       THEN CaughtFailure(prospects.items[i], FetchErrorMessage)
       ELSE calls[i].body]
\* the response of a run that runs alone
AloneResponse(prospects, keywords, calls) ==
  LET rej == BatchRejects(prospects, keywords)
  IN IF rej # NoResponse THEN rej
     ELSE Response(200, [success |-> TRUE,
                         results |-> AloneResults(prospects, calls),
                         summary |-> Summary(prospects, AloneResults(prospects, calls))])

\* C14: of two batch runs interleaved in any way, each one's result list is
\* at every moment the list built from its own prospects and the outcomes of
\* its own monitor calls, and its response is the one it gives when it runs
\* alone.
C14_RunsIndependent ==
  \A r \in Runs :
    /\ conc.run[r].pc \in {"loop", "await", "sleep"} =>
         conc.results[r] = AloneResults(conc.run[r].prospects, conc.calls[r])
    /\ conc.run[r].pc = "done" =>
         conc.run[r].res = AloneResponse(conc.run[r].prospects, conc.run[r].keywords,
                                         conc.calls[r])

\* both runs have a monitor call in flight: the first its second, after a
\* first one that succeeded with the fallback verdict, the second its only
\* one, which will reject
C14_Witness ==
  /\ conc.run[1].pc = "await" /\ conc.run[1].i = 2 /\ ~conc.run[1].rejecting
  /\ Len(conc.results[1]) = 1 /\ Success(conc.results[1][1])
  /\ conc.results[1][1].analysis.confidence = "low"
  /\ conc.run[2].pc = "await" /\ conc.run[2].i = 1 /\ conc.run[2].rejecting
  /\ conc.results[2] = <<>>
====
